---- MODULE Spec2Model ----
(***************************************************************************)
(* State-machine model of the vanish_program Anchor program                *)
(* (src/packages/program/src/lib.rs): repositories, collaborator grants    *)
(* and stars kept in program-derived accounts.                             *)
(*                                                                         *)
(* One action per instruction.  An action is a whole successful            *)
(* transaction: the account validation generated from the                  *)
(* #[derive(Accounts)] struct, the handler body, and the close performed   *)
(* on exit.  What a call returns in a state is given by the ...Result      *)
(* operators ("Ok" or the error); a transaction that returns an error is   *)
(* rolled back by the runtime, so it is a stuttering step: it changes no   *)
(* account and emits nothing.                                              *)
(***************************************************************************)
EXTENDS Integers, Sequences, FiniteSets, TLC

VARIABLES
    repositories,   \* open Repository accounts: address -> account data
    collaborators,  \* open Collaborator accounts: address -> account data
    stars,          \* open Star accounts: address -> account data
    clock,          \* Clock::get()?.unix_timestamp
    payers,         \* who paid the rent of each open account (`payer = ...`
                    \* of its init): address -> identity
    steps,          \* number of steps taken: successful transactions and
                    \* advances of the ledger time
    last            \* the last successful transaction: the call, the
                    \* events it emitted and who received the rent of the
                    \* account it closed

vars == <<repositories, collaborators, stars, payers, clock, steps, last>>

-----------------------------------------------------------------------------
(* Bounds of the model *)

\* the runs explored take at most MaxSteps steps (successful transactions and
\* advances of the ledger time)
MaxSteps == 5

-----------------------------------------------------------------------------
(* Program constants *)

MAX_NAME_LEN == 64

MAX_DESCRIPTION_LEN == 256

COMMIT_HASH_LEN == 40

MAX_IPFS_CID_LEN == 64

\* Every seed in `seeds = [...]` is handed to the runtime's program-address
\* derivation, which rejects a seed longer than 32 bytes.
MAX_SEED_LEN == 32

\* A Pubkey used as a seed (`key().as_ref()`) is 32 bytes long.
PUBKEY_BYTES == 32

\* stars: u64, stored as 8 little-endian bytes.
U64_BYTES == 8

-----------------------------------------------------------------------------
(* Inputs *)

\* ledger times
Times == {0, 1}

Users == {"A", "B"}

S32 == "0123456789abcdef0123456789abcdef"

S64 == S32 \o S32

S256 == S64 \o S64 \o S64 \o S64

\* names of 0, 1, 33, 64 and 65 bytes
Names == {"", "r", S32 \o "x", S64, S64 \o "x"}

\* descriptions of 1 and 257 bytes
Descriptions == {"d", S256 \o "x"}

HashA == "aaaaaaaaaaaaaaaaaaaaaaaaaaaaaaaaaaaaaaaa"

\* head commits of 0, 39, 40 and 41 bytes
Commits == {"", SubSeq(HashA, 1, 39), HashA, HashA \o "a"}

\* content ids of 5 and 65 bytes
Cids == {"Qm123", S64 \o "x"}

-----------------------------------------------------------------------------
(* u64 arithmetic on the stored little-endian bytes *)

ByteBase == 2^8

U64_ZERO == [i \in 1..U64_BYTES |-> 0]

U64_MAX == [i \in 1..U64_BYTES |-> ByteBase - 1]

RECURSIVE ShiftRight(_, _)
ShiftRight(n, k) == IF k = 0 THEN n ELSE ShiftRight(n \div ByteBase, k - 1)

\* the u64 holding the natural number n
U64(n) == [i \in 1..U64_BYTES |-> ShiftRight(n, i - 1) % ByteBase]

\* x + 1 modulo 2^64: byte i takes the carry when every lower byte is 0xff
wrapping_add_1(x) ==
    [i \in 1..U64_BYTES |->
        IF \A j \in 1..(i - 1) : x[j] = ByteBase - 1
        THEN (x[i] + 1) % ByteBase ELSE x[i]]

\* x - 1 modulo 2^64: byte i takes the borrow when every lower byte is 0
wrapping_sub_1(x) ==
    [i \in 1..U64_BYTES |->
        IF \A j \in 1..(i - 1) : x[j] = 0
        THEN (x[i] - 1) % ByteBase ELSE x[i]]

\* a bug: stars + 1 computed with wrapping_add
checked_add_1_wraps(x) == wrapping_add_1(x)

\* repo.stars.checked_add(1).unwrap_or(repo.stars)
checked_add_1_unwrap_or(x) == IF x = U64_MAX THEN x ELSE wrapping_add_1(x)

\* repo.stars.saturating_sub(1)
saturating_sub_1(x) == IF x = U64_ZERO THEN U64_ZERO ELSE wrapping_sub_1(x)

-----------------------------------------------------------------------------
(* Address derivation *)

NoPda == <<"none">>

\* Pubkey::find_program_address over the seeds of a `seeds = [...]` list:
\* no address when a seed is longer than MAX_SEED_LEN, otherwise an address
\* determined by the seeds (distinct seeds give distinct addresses).
find_program_address(seeds, lens) ==
    IF \E i \in DOMAIN lens : lens[i] > MAX_SEED_LEN THEN NoPda ELSE seeds

\* the canonical bump found with an address
Bump(address) == <<"bump", address>>

\* Pubkey::create_program_address with a stored bump (`bump = x.bump`)
create_program_address(seeds, lens, bump) ==
    IF bump = Bump(find_program_address(seeds, lens))
    THEN find_program_address(seeds, lens) ELSE NoPda

\* seeds = [b"repo", owner.key().as_ref(), name.as_bytes()]
RepoSeeds(owner, name) == <<"repo", owner, name>>

RepoSeedLens(name) == <<Len("repo"), PUBKEY_BYTES, Len(name)>>

\* seeds = [b"collab", repository.key().as_ref(), collaborator.as_ref()]
CollabSeeds(repository, user) == <<"collab", repository, user>>

CollabSeedLens == <<Len("collab"), PUBKEY_BYTES, PUBKEY_BYTES>>

\* seeds = [b"star", user.key().as_ref(), repository.key().as_ref()]
StarSeeds(user, repository) == <<"star", user, repository>>

StarSeedLens == <<Len("star"), PUBKEY_BYTES, PUBKEY_BYTES>>

\* the account addresses a caller can pass
RepoAddrs ==
    {find_program_address(RepoSeeds(u, n), RepoSeedLens(n)) :
        u \in Users, n \in Names \ {""}} \ {NoPda}

CollabAddrs ==
    {find_program_address(CollabSeeds(r, u), CollabSeedLens) :
        r \in RepoAddrs, u \in Users}

StarAddrs ==
    {find_program_address(StarSeeds(u, r), StarSeedLens) :
        u \in Users, r \in RepoAddrs}

-----------------------------------------------------------------------------
(* Record store *)

\* close = <target>: the account leaves the store
Close(accounts, address) ==
    [a \in DOMAIN accounts \ {address} |-> accounts[a]]

\* init: the account enters the store with its data
Create(accounts, address, data) ==
    [a \in DOMAIN accounts \cup {address} |->
        IF a = address THEN data ELSE accounts[a]]

\* the record of a successful transaction: the instruction, its signer, the
\* repository account and the collaborator or star account it was given, its
\* arguments, the events it emitted, and the identity that received the rent
\* of the account it closed ("none" when it closed no account)
Call(op, caller, repository, account, args, emitted) ==
    [op |-> op, caller |-> caller, repository |-> repository,
     account |-> account, args |-> args, events |-> emitted,
     refund |-> "none"]

\* the record of a successful transaction that closed an account with
\* close = recipient
ClosingCall(op, caller, repository, account, recipient) ==
    [Call(op, caller, repository, account, <<>>, <<>>) EXCEPT
        !.refund = recipient]

-----------------------------------------------------------------------------
(* Account validation (#[derive(Accounts)]) *)

\* a bug: the repository constraints without has_one = owner
OwnedRepository_NoHasOne(owner, repository) ==
    IF repository \notin DOMAIN repositories THEN "AccountNotInitialized"
    ELSE IF create_program_address(
                RepoSeeds(owner, repositories[repository].name),
                RepoSeedLens(repositories[repository].name),
                repositories[repository].bump) # repository
         THEN "ConstraintSeeds"
    ELSE "Ok"

\* a bug: the repository constraints with has_one = owner and no seeds
OwnedRepository_HasOneOnly(owner, repository) ==
    IF repository \notin DOMAIN repositories THEN "AccountNotInitialized"
    ELSE IF repositories[repository].owner # owner THEN "ConstraintHasOne"
    ELSE "Ok"

\* `repository: Account<Repository>` with
\* seeds = [b"repo", owner.key(), repository.name], bump = repository.bump,
\* has_one = owner
OwnedRepository(owner, repository) ==
    IF repository \notin DOMAIN repositories THEN "AccountNotInitialized"
    ELSE IF create_program_address(
                RepoSeeds(owner, repositories[repository].name),
                RepoSeedLens(repositories[repository].name),
                repositories[repository].bump) # repository
         THEN "ConstraintSeeds"
    ELSE IF repositories[repository].owner # owner THEN "ConstraintHasOne"
    ELSE "Ok"

\* `repository: Account<Repository>` with #[account(mut)] only
AnyRepository(repository) ==
    IF repository \notin DOMAIN repositories THEN "AccountNotInitialized"
    ELSE "Ok"

\* struct CreateRepo: init at seeds = [b"repo", owner.key(), name]
CreateRepoAccounts(owner, name) ==
    LET pda == find_program_address(RepoSeeds(owner, name), RepoSeedLens(name))
    IN  IF pda = NoPda THEN "MaxSeedLengthExceeded"
        ELSE IF pda \in DOMAIN repositories THEN "AlreadyInUse"
        ELSE "Ok"

\* a bug: the collaborator account taken with init_if_needed instead of init
AddCollaboratorAccounts_InitIfNeeded(owner, repository, collaborator) ==
    OwnedRepository(owner, repository)

\* struct AddCollaborator: the owned repository, then init at
\* seeds = [b"collab", repository.key(), collaborator]
AddCollaboratorAccounts(owner, repository, collaborator) ==
    LET repo == OwnedRepository(owner, repository)
    IN  IF repo # "Ok" THEN repo
        ELSE IF find_program_address(CollabSeeds(repository, collaborator),
                                     CollabSeedLens) \in DOMAIN collaborators
             THEN "AlreadyInUse"
        ELSE "Ok"

\* a bug: the collaborator account taken without its seeds constraint
RemoveCollaboratorAccounts_NoSeeds(owner, repository, collaborator_account) ==
    LET repo == OwnedRepository(owner, repository)
    IN  IF repo # "Ok" THEN repo
        ELSE IF collaborator_account \notin DOMAIN collaborators
             THEN "AccountNotInitialized"
        ELSE "Ok"

\* struct RemoveCollaborator: the owned repository, then the collaborator
\* account at seeds = [b"collab", repository.key(), collaborator_account.user],
\* bump = collaborator_account.bump
RemoveCollaboratorAccounts(owner, repository, collaborator_account) ==
    LET repo == OwnedRepository(owner, repository)
    IN  IF repo # "Ok" THEN repo
        ELSE IF collaborator_account \notin DOMAIN collaborators
             THEN "AccountNotInitialized"
        ELSE IF create_program_address(
                    CollabSeeds(repository,
                                collaborators[collaborator_account].user),
                    CollabSeedLens,
                    collaborators[collaborator_account].bump)
                        # collaborator_account
             THEN "ConstraintSeeds"
        ELSE "Ok"

\* a bug: the star account taken with init_if_needed instead of init
StarRepoAccounts_InitIfNeeded(user, repository) == AnyRepository(repository)

\* struct StarRepo: any repository, then init at
\* seeds = [b"star", user.key(), repository.key()]
StarRepoAccounts(user, repository) ==
    LET repo == AnyRepository(repository)
    IN  IF repo # "Ok" THEN repo
        ELSE IF find_program_address(StarSeeds(user, repository), StarSeedLens)
                    \in DOMAIN stars
             THEN "AlreadyInUse"
        ELSE "Ok"

\* struct UnstarRepo: any repository, then the star account at
\* seeds = [b"star", user.key(), repository.key()], bump = star_account.bump
UnstarRepoAccounts(user, repository, star_account) ==
    LET repo == AnyRepository(repository)
    IN  IF repo # "Ok" THEN repo
        ELSE IF star_account \notin DOMAIN stars THEN "AccountNotInitialized"
        ELSE IF create_program_address(StarSeeds(user, repository),
                    StarSeedLens, stars[star_account].bump) # star_account
             THEN "ConstraintSeeds"
        ELSE "Ok"

-----------------------------------------------------------------------------
(* What each instruction returns: account validation, then the handler *)

\* a bug: create_repo without the NameEmpty check
CreateRepoRequire_NoEmptyCheck(name, description) ==
    IF ~(Len(name) <= MAX_NAME_LEN) THEN "NameTooLong"
    ELSE IF ~(Len(description) <= MAX_DESCRIPTION_LEN) THEN "DescriptionTooLong"
    ELSE "Ok"

\* the require! checks of create_repo, in the order of the code
CreateRepoRequire(name, description) ==
    IF ~(Len(name) <= MAX_NAME_LEN) THEN "NameTooLong"
    ELSE IF ~(Len(description) <= MAX_DESCRIPTION_LEN) THEN "DescriptionTooLong"
    ELSE IF name = "" THEN "NameEmpty"
    ELSE "Ok"

\* a bug: push_update without the commit-hash length check
PushUpdateRequire_NoHashCheck(head_commit, ipfs_cid) ==
    IF ~(Len(ipfs_cid) <= MAX_IPFS_CID_LEN) THEN "InvalidIpfsCid"
    ELSE "Ok"

\* the require! checks of push_update, in the order of the code
PushUpdateRequire(head_commit, ipfs_cid) ==
    IF ~(Len(head_commit) = COMMIT_HASH_LEN) THEN "InvalidCommitHash"
    ELSE IF ~(Len(ipfs_cid) <= MAX_IPFS_CID_LEN) THEN "InvalidIpfsCid"
    ELSE "Ok"

CreateRepoResult(owner, name, description) ==
    LET accounts == CreateRepoAccounts(owner, name)
    IN  IF accounts # "Ok" THEN accounts
        ELSE CreateRepoRequire(name, description)

PushUpdateResult(owner, repository, head_commit, ipfs_cid) ==
    LET accounts == OwnedRepository(owner, repository)
    IN  IF accounts # "Ok" THEN accounts
        ELSE PushUpdateRequire(head_commit, ipfs_cid)

AddCollaboratorResult(owner, repository, collaborator) ==
    AddCollaboratorAccounts(owner, repository, collaborator)

RemoveCollaboratorResult(owner, repository, collaborator_account) ==
    RemoveCollaboratorAccounts(owner, repository, collaborator_account)

StarRepoResult(user, repository) == StarRepoAccounts(user, repository)

\* a bug: unstar_repo that refuses to take a star from a count of zero
UnstarRepoResult_ChecksCount(user, repository, star_account) ==
    LET accounts == UnstarRepoAccounts(user, repository, star_account)
    IN  IF accounts # "Ok" THEN accounts
        ELSE IF repositories[repository].stars = U64_ZERO THEN "Underflow"
        ELSE "Ok"

UnstarRepoResult(user, repository, star_account) ==
    UnstarRepoAccounts(user, repository, star_account)

TransferOwnershipResult(owner, repository) == OwnedRepository(owner, repository)

DeleteRepoResult(owner, repository) == OwnedRepository(owner, repository)

-----------------------------------------------------------------------------
(* Instructions *)

\* the account written by create_repo
NewRepository(owner, name, description, is_private, address) ==
    [owner |-> owner, name |-> name, description |-> description,
     is_private |-> is_private, created_at |-> clock, updated_at |-> clock,
     head_commit |-> "", ipfs_cid |-> "", stars |-> U64_ZERO,
     bump |-> Bump(address)]

\* a bug: push_update that forgets updated_at
PushedRepository_StaleTime(repo, head_commit, ipfs_cid) ==
    [repo EXCEPT !.head_commit = head_commit, !.ipfs_cid = ipfs_cid]

\* the writes of push_update
PushedRepository(repo, head_commit, ipfs_cid) ==
    [repo EXCEPT !.head_commit = head_commit, !.ipfs_cid = ipfs_cid,
                 !.updated_at = clock]

\* the account written by add_collaborator
NewCollaborator(repository, collaborator, can_push, address) ==
    [repository |-> repository, user |-> collaborator, can_push |-> can_push,
     added_at |-> clock, bump |-> Bump(address)]

\* the account written by star_repo
NewStar(user, repository, address) ==
    [user |-> user, repository |-> repository, starred_at |-> clock,
     bump |-> Bump(address)]

\* the write of star_repo to the repository
StarredRepository(repo) ==
    [repo EXCEPT !.stars = checked_add_1_unwrap_or(repo.stars)]

\* the write of unstar_repo to the repository
UnstarredRepository(repo) ==
    [repo EXCEPT !.stars = saturating_sub_1(repo.stars)]

\* a bug: transfer_ownership that also stamps updated_at
TransferredRepository_StampsTime(repo, new_owner) ==
    [repo EXCEPT !.owner = new_owner, !.updated_at = clock]

\* the write of transfer_ownership
TransferredRepository(repo, new_owner) == [repo EXCEPT !.owner = new_owner]

create_repo(owner, name, description, is_private) ==
    /\ steps < MaxSteps
    /\ CreateRepoResult(owner, name, description) = "Ok"
    /\ LET address == find_program_address(RepoSeeds(owner, name),
                                           RepoSeedLens(name))
       IN  /\ repositories' = Create(repositories, address,
                  NewRepository(owner, name, description, is_private, address))
           /\ last' = Call("create_repo", owner, address, NoPda,
                  <<name, description, is_private>>,
                  <<[event |-> "RepoCreated", owner |-> owner, name |-> name,
                     is_private |-> is_private, timestamp |-> clock]>>)
           /\ payers' = Create(payers, address, owner)
    /\ steps' = steps + 1
    /\ UNCHANGED <<collaborators, stars, clock>>

push_update(owner, repository, head_commit, ipfs_cid) ==
    /\ steps < MaxSteps
    /\ PushUpdateResult(owner, repository, head_commit, ipfs_cid) = "Ok"
    /\ repositories' = [repositories EXCEPT ![repository] =
           PushedRepository(repositories[repository], head_commit, ipfs_cid)]
    /\ last' = Call("push_update", owner, repository, NoPda,
           <<head_commit, ipfs_cid>>,
           <<[event |-> "RepoPushed", owner |-> repositories[repository].owner,
              name |-> repositories[repository].name,
              head_commit |-> head_commit, ipfs_cid |-> ipfs_cid,
              timestamp |-> clock]>>)
    /\ steps' = steps + 1
    /\ UNCHANGED <<collaborators, stars, payers, clock>>

add_collaborator(owner, repository, collaborator, can_push) ==
    /\ steps < MaxSteps
    /\ AddCollaboratorResult(owner, repository, collaborator) = "Ok"
    /\ LET address == find_program_address(
                          CollabSeeds(repository, collaborator), CollabSeedLens)
       IN  /\ collaborators' = Create(collaborators, address,
                  NewCollaborator(repository, collaborator, can_push, address))
           /\ last' = Call("add_collaborator", owner, repository, address,
                  <<collaborator, can_push>>,
                  <<[event |-> "CollaboratorAdded", repository |-> repository,
                     collaborator |-> collaborator, can_push |-> can_push,
                     timestamp |-> clock]>>)
           /\ payers' = Create(payers, address, owner)
    /\ steps' = steps + 1
    /\ UNCHANGED <<repositories, stars, clock>>

remove_collaborator(owner, repository, collaborator_account) ==
    /\ steps < MaxSteps
    /\ RemoveCollaboratorResult(owner, repository, collaborator_account) = "Ok"
    /\ collaborators' = Close(collaborators, collaborator_account)
    /\ payers' = Close(payers, collaborator_account)
    /\ last' = ClosingCall("remove_collaborator", owner, repository,
                           collaborator_account, owner)
    /\ steps' = steps + 1
    /\ UNCHANGED <<repositories, stars, clock>>

star_repo(user, repository) ==
    /\ steps < MaxSteps
    /\ StarRepoResult(user, repository) = "Ok"
    /\ LET address == find_program_address(StarSeeds(user, repository),
                                           StarSeedLens)
       IN  /\ stars' = Create(stars, address,
                               NewStar(user, repository, address))
           /\ last' = Call("star_repo", user, repository, address, <<>>,
                  <<[event |-> "RepoStarred", user |-> user,
                     repository |-> repository, timestamp |-> clock]>>)
           /\ payers' = Create(payers, address, user)
    /\ repositories' = [repositories EXCEPT ![repository] =
           StarredRepository(repositories[repository])]
    /\ steps' = steps + 1
    /\ UNCHANGED <<collaborators, clock>>

\* a bug: unstar_repo that emits an event, as star_repo does
unstar_repo_emits(user, repository, star_account) ==
    /\ steps < MaxSteps
    /\ UnstarRepoResult(user, repository, star_account) = "Ok"
    /\ repositories' = [repositories EXCEPT ![repository] =
           UnstarredRepository(repositories[repository])]
    /\ stars' = Close(stars, star_account)
    /\ payers' = Close(payers, star_account)
    /\ last' = [Call("unstar_repo", user, repository, star_account, <<>>,
           <<[event |-> "RepoUnstarred", user |-> user,
              repository |-> repository, timestamp |-> clock]>>)
                 EXCEPT !.refund = user]
    /\ steps' = steps + 1
    /\ UNCHANGED <<collaborators, clock>>

unstar_repo(user, repository, star_account) ==
    /\ steps < MaxSteps
    /\ UnstarRepoResult(user, repository, star_account) = "Ok"
    /\ repositories' = [repositories EXCEPT ![repository] =
           UnstarredRepository(repositories[repository])]
    /\ stars' = Close(stars, star_account)
    /\ payers' = Close(payers, star_account)
    /\ last' = ClosingCall("unstar_repo", user, repository, star_account, user)
    /\ steps' = steps + 1
    /\ UNCHANGED <<collaborators, clock>>

transfer_ownership(owner, repository, new_owner) ==
    /\ steps < MaxSteps
    /\ TransferOwnershipResult(owner, repository) = "Ok"
    /\ repositories' = [repositories EXCEPT ![repository] =
           TransferredRepository(repositories[repository], new_owner)]
    /\ last' = Call("transfer_ownership", owner, repository, NoPda,
           <<new_owner>>,
           <<[event |-> "OwnershipTransferred", repository |-> repository,
              old_owner |-> repositories[repository].owner,
              new_owner |-> new_owner]>>)
    /\ steps' = steps + 1
    /\ UNCHANGED <<collaborators, stars, payers, clock>>

\* a bug: delete_repo that also closes the Collaborator and Star accounts of
\* the repository
delete_repo_cascade(owner, repository) ==
    /\ steps < MaxSteps
    /\ DeleteRepoResult(owner, repository) = "Ok"
    /\ repositories' = Close(repositories, repository)
    /\ collaborators' =
           [a \in {c \in DOMAIN collaborators :
                      collaborators[c].repository # repository} |->
               collaborators[a]]
    /\ stars' =
           [a \in {c \in DOMAIN stars : stars[c].repository # repository} |->
               stars[a]]
    /\ payers' =
           [a \in {c \in DOMAIN payers :
                      /\ c # repository
                      /\ c \in DOMAIN collaborators =>
                             collaborators[c].repository # repository
                      /\ c \in DOMAIN stars =>
                             stars[c].repository # repository} |->
               payers[a]]
    /\ last' = ClosingCall("delete_repo", owner, repository, NoPda, owner)
    /\ steps' = steps + 1
    /\ UNCHANGED clock

delete_repo(owner, repository) ==
    /\ steps < MaxSteps
    /\ DeleteRepoResult(owner, repository) = "Ok"
    /\ repositories' = Close(repositories, repository)
    /\ payers' = Close(payers, repository)
    /\ last' = ClosingCall("delete_repo", owner, repository, NoPda, owner)
    /\ steps' = steps + 1
    /\ UNCHANGED <<collaborators, stars, clock>>

\* the ledger time moves on between transactions
Tick ==
    /\ steps < MaxSteps
    /\ \E t \in Times : t > clock /\ clock' = t
    /\ steps' = steps + 1
    /\ UNCHANGED <<repositories, collaborators, stars, payers, last>>

-----------------------------------------------------------------------------
(* Specification *)

Init ==
    /\ repositories = <<>>
    /\ collaborators = <<>>
    /\ stars = <<>>
    /\ payers = <<>>
    /\ clock = 0
    /\ steps = 0
    /\ last = Call("none", "none", NoPda, NoPda, <<>>, <<>>)

Next ==
    \/ \E owner \in Users, name \in Names, description \in Descriptions,
          is_private \in BOOLEAN :
            create_repo(owner, name, description, is_private)
    \/ \E owner \in Users, repository \in RepoAddrs, head_commit \in Commits,
          ipfs_cid \in Cids :
            push_update(owner, repository, head_commit, ipfs_cid)
    \/ \E owner \in Users, repository \in RepoAddrs, collaborator \in Users,
          can_push \in BOOLEAN :
            add_collaborator(owner, repository, collaborator, can_push)
    \/ \E owner \in Users, repository \in RepoAddrs,
          collaborator_account \in CollabAddrs :
            remove_collaborator(owner, repository, collaborator_account)
    \/ \E user \in Users, repository \in RepoAddrs :
            star_repo(user, repository)
    \/ \E user \in Users, repository \in RepoAddrs, star_account \in StarAddrs :
            unstar_repo(user, repository, star_account)
    \/ \E owner \in Users, repository \in RepoAddrs, new_owner \in Users :
            transfer_ownership(owner, repository, new_owner)
    \/ \E owner \in Users, repository \in RepoAddrs :
            delete_repo(owner, repository)
    \/ Tick

Spec == Init /\ [][Next]_vars

-----------------------------------------------------------------------------
(* The star counter over the range of u64 *)

\* star counts at both ends of u64
StarSamples == {U64_ZERO, U64(1), U64_MAX}

\* One repository is open.  Its stars field is any of StarSamples: the
\* repository has been starred by identities outside Users, whose Star
\* accounts are left out, or has been deleted and created again while Star
\* accounts of Users stayed open.
InitSat ==
    /\ clock = 0
    /\ steps = 0
    /\ last = Call("none", "none", NoPda, NoPda, <<>>, <<>>)
    /\ collaborators = <<>>
    /\ \E count \in StarSamples, starring \in SUBSET Users :
        LET r == find_program_address(RepoSeeds("A", "r"), RepoSeedLens("r"))
            address(u) == find_program_address(StarSeeds(u, r), StarSeedLens)
        IN  /\ repositories = Create(<<>>, r,
                   [NewRepository("A", "r", "d", FALSE, r) EXCEPT
                       !.stars = count])
            /\ stars = [a \in {address(u) : u \in starring} |->
                           NewStar(a[2], r, a)]
            /\ payers = [a \in {r} \cup {address(u) : u \in starring} |->
                            a[2]]

NextSat ==
    \/ \E user \in Users, repository \in RepoAddrs :
            star_repo(user, repository)
    \/ \E user \in Users, repository \in RepoAddrs, star_account \in StarAddrs :
            unstar_repo(user, repository, star_account)
    \/ Tick

SpecSat == InitSat /\ [][NextSat]_vars

-----------------------------------------------------------------------------
(* Helpers of the properties *)

\* the open Star accounts whose repository field is the address r
StarsOf(r) == {a \in DOMAIN stars : stars[a].repository = r}

\* the instructions guarded by the repository's owner
OwnerOps == {"push_update", "add_collaborator", "remove_collaborator",
             "transfer_ownership", "delete_repo"}

\* this step is a successful transaction of the instruction op
Ran(op) == steps' # steps /\ clock' = clock /\ last'.op = op

\* arguments that pass every require! check
ValidCommit == HashA

ValidCid == "Qm123"

-----------------------------------------------------------------------------
(* C1 *)

\* C1: in every reachable state, the stars field of every open Repository
\* equals the number of open Star accounts whose repository field is that
\* repository's address.
C1_StarsEqualOpenStars ==
    \A r \in DOMAIN repositories :
        repositories[r].stars = U64(Cardinality(StarsOf(r)))

-----------------------------------------------------------------------------
(* C2 *)

\* what a caller other than the recorded owner gets from the owner's
\* instructions
C2_NonOwnerResults ==
    \A caller \in Users : \A r \in DOMAIN repositories :
        repositories[r].owner # caller =>
            /\ \A h \in Commits, c \in Cids :
                   PushUpdateResult(caller, r, h, c) # "Ok"
            /\ \A g \in Users : AddCollaboratorResult(caller, r, g) # "Ok"
            /\ \A a \in CollabAddrs :
                   RemoveCollaboratorResult(caller, r, a) # "Ok"
            /\ TransferOwnershipResult(caller, r) # "Ok"
            /\ DeleteRepoResult(caller, r) # "Ok"

\* who signed a successful owner's instruction
C2_OwnerStep ==
    (\E op \in OwnerOps : Ran(op)) =>
        /\ last'.repository \in DOMAIN repositories
        /\ repositories[last'.repository].owner = last'.caller

\* C2: in every reachable state, a caller who is not the identity in the
\* repository's owner field gets an error from push_update, add_collaborator,
\* remove_collaborator, transfer_ownership and delete_repo, whatever the
\* arguments and whatever grants the caller holds (an error rolls the
\* transaction back: no account and no event changes); and every transaction
\* of these instructions that did succeed was signed by the owner recorded
\* when it ran.
C2_OnlyOwnerSucceeds == []C2_NonOwnerResults /\ [][C2_OwnerStep]_vars

\* a non-owner holds a grant with can_push = true on an open repository
C2_Witness ==
    \E a \in DOMAIN collaborators :
        /\ collaborators[a].can_push
        /\ collaborators[a].repository \in DOMAIN repositories
        /\ repositories[collaborators[a].repository].owner # collaborators[a].user

-----------------------------------------------------------------------------
(* C3 *)

\* C3: in every reachable state, push_update (with a 40-character head_commit
\* and an ipfs_cid of at most 64 bytes), transfer_ownership and delete_repo
\* called by the identity in an open repository's owner field each succeed.
C3_RecordedOwnerSucceeds ==
    \A r \in DOMAIN repositories :
        /\ PushUpdateResult(repositories[r].owner, r, ValidCommit, ValidCid) = "Ok"
        /\ TransferOwnershipResult(repositories[r].owner, r) = "Ok"
        /\ DeleteRepoResult(repositories[r].owner, r) = "Ok"

-----------------------------------------------------------------------------
(* C4 *)

\* the address re-derived from the record's own fields
C4_AddressOfOwnerAndName ==
    \A r \in DOMAIN repositories :
        r = find_program_address(
                RepoSeeds(repositories[r].owner, repositories[r].name),
                RepoSeedLens(repositories[r].name))

\* a step keeps the name of every record it leaves open
C4_NameKept ==
    \A r \in DOMAIN repositories \cap DOMAIN repositories' :
        repositories'[r].name = repositories[r].name

\* C4: in every reachable state every open Repository is stored at the
\* address derived from "repo", its current owner field and its name field,
\* and the name field of a record never changes while the record is open.
C4_AddressAndName == []C4_AddressOfOwnerAndName /\ [][C4_NameKept]_vars

-----------------------------------------------------------------------------
(* C5 *)

\* the names and descriptions create_repo documents as valid
DocumentedName(name) == Len(name) >= 1 /\ Len(name) <= MAX_NAME_LEN

DocumentedDescription(description) == Len(description) <= MAX_DESCRIPTION_LEN

\* create_repo succeeds exactly when the derived address is free
C5_CreateResults ==
    \A caller \in Users, name \in Names, description \in Descriptions :
        (DocumentedName(name) /\ DocumentedDescription(description)) =>
            (CreateRepoResult(caller, name, description) = "Ok"
                <=> find_program_address(RepoSeeds(caller, name),
                        RepoSeedLens(name)) \notin DOMAIN repositories)

\* the record a successful create_repo leaves
C5_CreatedRecord ==
    Ran("create_repo") =>
        LET address == find_program_address(
                           RepoSeeds(last'.caller, last'.args[1]),
                           RepoSeedLens(last'.args[1]))
        IN  /\ address \notin DOMAIN repositories
            /\ DOMAIN repositories' = DOMAIN repositories \cup {address}
            /\ \A r \in DOMAIN repositories : repositories'[r] = repositories[r]
            /\ repositories'[address].owner = last'.caller
            /\ repositories'[address].name = last'.args[1]
            /\ repositories'[address].description = last'.args[2]
            /\ repositories'[address].is_private = last'.args[3]
            /\ repositories'[address].stars = U64_ZERO
            /\ repositories'[address].head_commit = ""
            /\ repositories'[address].ipfs_cid = ""
            /\ repositories'[address].created_at = clock
            /\ repositories'[address].updated_at = clock

\* C5: for every caller, every name of 1 to 64 bytes and every description
\* of at most 256 bytes, create_repo succeeds when no Repository is open at
\* derive("repo", caller, name) and fails when one is; and a create_repo that
\* succeeded left at that address a record with owner = caller, the given
\* name, description and privacy flag, stars = 0, empty head_commit and
\* ipfs_cid, and created_at = updated_at = the ledger time.
C5_CreateRepo == []C5_CreateResults /\ [][C5_CreatedRecord]_vars

-----------------------------------------------------------------------------
(* C6 *)

\* arguments create_repo documents as invalid
RejectedCreate(name, description) ==
    Len(name) = 0 \/ Len(name) > MAX_NAME_LEN
        \/ Len(description) > MAX_DESCRIPTION_LEN

\* C6 as claimed: create_repo with a name of length 0, a name longer than 64
\* bytes or a description longer than 256 bytes always fails with NameEmpty,
\* NameTooLong or DescriptionTooLong (and, rolled back, creates no record and
\* emits no event).
C6_FailsWithValidationError ==
    \A caller \in Users, name \in Names, description \in Descriptions :
        RejectedCreate(name, description) =>
            CreateRepoResult(caller, name, description)
                \in {"NameEmpty", "NameTooLong", "DescriptionTooLong"}

\* what create_repo returns for rejected arguments: the account-validation
\* error when there is one, else one of the handler's three
C6_RejectedResults ==
    \A caller \in Users, name \in Names, description \in Descriptions :
        RejectedCreate(name, description) =>
            LET result == CreateRepoResult(caller, name, description)
                accounts == CreateRepoAccounts(caller, name)
            IN  /\ result # "Ok"
                /\ IF accounts # "Ok"
                   THEN result = accounts
                   ELSE result \in {"NameEmpty", "NameTooLong",
                                    "DescriptionTooLong"}

\* no successful create_repo has rejected arguments
C6_NoRejectedCreate ==
    Ran("create_repo") => ~RejectedCreate(last'.args[1], last'.args[2])

\* C6 as amended: such a create_repo always fails, with NameEmpty,
\* NameTooLong or DescriptionTooLong or with an account-validation error
\* raised before those checks run (seed too long, address already in use),
\* and, rolled back, creates no record, emits no event and changes no record;
\* no successful create_repo has such arguments.
C6_RejectedCreateFails == []C6_RejectedResults /\ [][C6_NoRejectedCreate]_vars

\* a repository is open and a create_repo for its owner and name with a
\* description of 257 bytes is refused as already in use
C6_Witness ==
    \E r \in DOMAIN repositories, description \in Descriptions :
        /\ Len(description) > MAX_DESCRIPTION_LEN
        /\ CreateRepoResult(repositories[r].owner, repositories[r].name,
                            description) = "AlreadyInUse"
        /\ CreateRepoResult(repositories[r].owner, "", "d") = "NameEmpty"

-----------------------------------------------------------------------------
(* C7 *)

\* arguments push_update documents as invalid
RejectedPush(head_commit, ipfs_cid) ==
    Len(head_commit) # COMMIT_HASH_LEN \/ Len(ipfs_cid) > MAX_IPFS_CID_LEN

\* what push_update returns for rejected arguments
C7_RejectedResults ==
    \A caller \in Users, r \in RepoAddrs, h \in Commits, c \in Cids :
        RejectedPush(h, c) => PushUpdateResult(caller, r, h, c) # "Ok"

\* what a successful push_update changes
C7_PushEffect ==
    Ran("push_update") =>
        LET r == last'.repository
        IN  /\ r \in DOMAIN repositories
            /\ last'.caller = repositories[r].owner
            /\ ~RejectedPush(last'.args[1], last'.args[2])
            /\ DOMAIN repositories' = DOMAIN repositories
            /\ \A o \in DOMAIN repositories \ {r} :
                   repositories'[o] = repositories[o]
            /\ repositories'[r] = [repositories[r] EXCEPT
                   !.head_commit = last'.args[1],
                   !.ipfs_cid = last'.args[2],
                   !.updated_at = clock]
            /\ UNCHANGED <<collaborators, stars>>

\* C7: push_update with a head_commit whose length is not 40, or an ipfs_cid
\* longer than 64 bytes, fails for every caller on every repository (and,
\* rolled back, changes nothing); a push_update that succeeds was called by
\* the owner with valid arguments, sets head_commit, ipfs_cid and updated_at
\* to the arguments and the ledger time, and changes nothing else.
C7_PushUpdate == []C7_RejectedResults /\ [][C7_PushEffect]_vars

\* a push has run at a later ledger time than the repository's creation
C7_Witness ==
    /\ last.op = "push_update"
    /\ last.repository \in DOMAIN repositories
    /\ repositories[last.repository].head_commit = last.args[1]
    /\ repositories[last.repository].updated_at
           > repositories[last.repository].created_at

-----------------------------------------------------------------------------
(* C8 *)

\* the lengths a stored head_commit has
C8_CommitLength ==
    \A r \in DOMAIN repositories :
        Len(repositories[r].head_commit) \in {0, COMMIT_HASH_LEN}

\* a set head_commit stays set
C8_CommitStays ==
    \A r \in DOMAIN repositories \cap DOMAIN repositories' :
        Len(repositories[r].head_commit) = COMMIT_HASH_LEN
            => Len(repositories'[r].head_commit) = COMMIT_HASH_LEN

\* C8: in every reachable state the head_commit of every open Repository has
\* length 0 or 40, and a head_commit of length 40 still has length 40 after
\* every step that leaves the record open.
C8_HeadCommit == []C8_CommitLength /\ [][C8_CommitStays]_vars

\* a repository whose head_commit is set has gone through a later transaction
C8_Witness ==
    /\ last.op = "transfer_ownership"
    /\ last.repository \in DOMAIN repositories
    /\ Len(repositories[last.repository].head_commit) = COMMIT_HASH_LEN

-----------------------------------------------------------------------------
(* C9 *)

\* what a second star_repo returns, and the pairs of the open Star accounts
C9_SecondStarFails ==
    /\ \A a \in DOMAIN stars :
           StarRepoResult(stars[a].user, stars[a].repository) # "Ok"
    /\ \A a, b \in DOMAIN stars :
           (stars[a].user = stars[b].user
               /\ stars[a].repository = stars[b].repository) => a = b

\* a successful star_repo adds an account for a new pair
C9_StarIsNew ==
    Ran("star_repo") =>
        /\ ~\E a \in DOMAIN stars :
               stars[a].user = last'.caller
                   /\ stars[a].repository = last'.repository
        /\ Cardinality(DOMAIN stars') = Cardinality(DOMAIN stars) + 1

\* C9: star_repo by the user of an open Star account on that account's
\* repository fails (and, rolled back, leaves the star count and every record
\* unchanged); a star_repo that succeeds found no such account; and no two
\* open Star accounts have the same user and repository.
C9_OneStarPerPair == []C9_SecondStarFails /\ [][C9_StarIsNew]_vars

\* a user holds a star on an open repository, whose second star_repo is
\* refused as already in use
C9_Witness ==
    \E a \in DOMAIN stars :
        /\ stars[a].repository \in DOMAIN repositories
        /\ repositories[stars[a].repository].stars = U64(1)
        /\ StarRepoResult(stars[a].user, stars[a].repository) = "AlreadyInUse"

-----------------------------------------------------------------------------
(* C10 *)

\* what star_repo and unstar_repo return
C10_NeverErrors ==
    /\ \A a \in DOMAIN stars :
           stars[a].repository \in DOMAIN repositories =>
               UnstarRepoResult(stars[a].user, stars[a].repository, a) = "Ok"
    /\ \A u \in Users, r \in DOMAIN repositories :
           find_program_address(StarSeeds(u, r), StarSeedLens) \notin DOMAIN stars
               => StarRepoResult(u, r) = "Ok"

\* the star count at both ends of u64
C10_ClampedStep ==
    /\ (Ran("unstar_repo")
            /\ repositories[last'.repository].stars = U64_ZERO) =>
           /\ repositories'[last'.repository].stars = U64_ZERO
           /\ last'.account \in DOMAIN stars
           /\ last'.account \notin DOMAIN stars'
    /\ (Ran("star_repo")
            /\ repositories[last'.repository].stars = U64_MAX) =>
           /\ repositories'[last'.repository].stars = U64_MAX
           /\ last'.account \notin DOMAIN stars
           /\ last'.account \in DOMAIN stars'

\* C10: unstar_repo by the user of an open Star account on an open
\* repository succeeds whatever the star count, and with stars = 0 it closes
\* the account and leaves stars = 0; star_repo by a user without a Star
\* account on an open repository succeeds whatever the star count, and with
\* stars at the maximum of u64 it creates the account and leaves stars at the
\* maximum.
C10_StarCounterSaturates == []C10_NeverErrors /\ [][C10_ClampedStep]_vars

\* the first transaction starred a repository whose stars was at the maximum
\* (the other star counts of InitSat give 1 and 2)
C10_Witness ==
    /\ steps = 1
    /\ last.op = "star_repo"
    /\ last.account \in DOMAIN stars
    /\ repositories[last.repository].stars = U64_MAX

-----------------------------------------------------------------------------
(* C11 *)

\* the address of the Collaborator account of a repository and a grantee
CollabAddress(repository, grantee) ==
    find_program_address(CollabSeeds(repository, grantee), CollabSeedLens)

\* add_collaborator by the recorded owner succeeds for a grantee without grant
C11_AddSucceeds ==
    \A r \in DOMAIN repositories, g \in Users :
        CollabAddress(r, g) \notin DOMAIN collaborators =>
            AddCollaboratorResult(repositories[r].owner, r, g) = "Ok"

\* right after an add_collaborator the same owner's remove_collaborator for
\* the new account succeeds, and closing that account gives back the
\* Collaborator accounts from before the add
C11_RemoveFollows ==
    Ran("add_collaborator") =>
        /\ last'.account \notin DOMAIN collaborators
        /\ (RemoveCollaboratorResult(last.caller, last.repository,
                                     last.account))' = "Ok"
        /\ Close(collaborators', last'.account) = collaborators
        /\ UNCHANGED <<repositories, stars>>

\* a remove_collaborator that follows the add_collaborator of the same account
\* closes that account and nothing else
C11_RemoveUndoes ==
    (Ran("remove_collaborator") /\ last.op = "add_collaborator"
        /\ last.account = last'.account /\ last.caller = last'.caller) =>
        /\ collaborators' = Close(collaborators, last.account)
        /\ UNCHANGED <<repositories, stars>>

\* C11: for every open repository and every grantee without a grant,
\* add_collaborator by the owner succeeds, the owner's remove_collaborator for
\* the same pair right after it succeeds, and the two together leave the
\* repositories, the Collaborator accounts and the Star accounts as they were
\* before the add.
C11_AddThenRemove ==
    []C11_AddSucceeds /\ [][C11_RemoveFollows /\ C11_RemoveUndoes]_vars

-----------------------------------------------------------------------------
(* C12 *)

\* what add_collaborator returns for a pair that has an open account, the
\* pairs of the open Collaborator accounts and where they are stored
C12_SecondAddFails ==
    /\ \A a \in DOMAIN collaborators, caller \in Users :
           AddCollaboratorResult(caller, collaborators[a].repository,
                                 collaborators[a].user) # "Ok"
    /\ \A a, b \in DOMAIN collaborators :
           (collaborators[a].repository = collaborators[b].repository
               /\ collaborators[a].user = collaborators[b].user) => a = b
    /\ \A a \in DOMAIN collaborators :
           a = CollabAddress(collaborators[a].repository, collaborators[a].user)

\* a successful add_collaborator adds an account for a new pair and writes no
\* other Collaborator account
C12_AddIsNew ==
    Ran("add_collaborator") =>
        /\ ~\E a \in DOMAIN collaborators :
               collaborators[a].repository = last'.repository
                   /\ collaborators[a].user = last'.args[1]
        /\ DOMAIN collaborators' = DOMAIN collaborators \cup {last'.account}
        /\ \A a \in DOMAIN collaborators : collaborators'[a] = collaborators[a]

\* C12: add_collaborator for the repository and grantee of an open
\* Collaborator account fails for every caller (and, rolled back, leaves the
\* account's can_push and added_at as they were); an add_collaborator that
\* succeeds found no account for the pair and leaves every other Collaborator
\* account unchanged; no two open Collaborator accounts have the same
\* repository and grantee; and each is stored at the address derived from
\* "collab", its repository field and its user field.
C12_OneGrantPerPair == []C12_SecondAddFails /\ [][C12_AddIsNew]_vars

\* the owner of an open repository is refused a second grant for a grantee,
\* as already in use, at a later ledger time than the first grant
C12_Witness ==
    \E a \in DOMAIN collaborators :
        /\ collaborators[a].repository \in DOMAIN repositories
        /\ clock > collaborators[a].added_at
        /\ AddCollaboratorResult(
               repositories[collaborators[a].repository].owner,
               collaborators[a].repository, collaborators[a].user)
                   = "AlreadyInUse"

-----------------------------------------------------------------------------
(* C13 *)

\* the open Collaborator accounts whose repository field is the address r
CollaboratorsOf(r) ==
    {a \in DOMAIN collaborators : collaborators[a].repository = r}

\* what a successful delete_repo closes and what it leaves
C13_DeleteEffect ==
    Ran("delete_repo") =>
        LET r == last'.repository
        IN  /\ r \in DOMAIN repositories
            /\ DOMAIN repositories' = DOMAIN repositories \ {r}
            /\ \A o \in DOMAIN repositories' : repositories'[o] = repositories[o]
            /\ \A a \in CollaboratorsOf(r) :
                   a \in DOMAIN collaborators'
                       /\ collaborators'[a] = collaborators[a]
            /\ \A a \in StarsOf(r) :
                   a \in DOMAIN stars' /\ stars'[a] = stars[a]
            /\ UNCHANGED <<collaborators, stars>>

\* C13: a successful delete_repo closes the Repository account it was given
\* and no other account: every Collaborator account and every Star account
\* whose repository field is the deleted repository's address is open, with
\* the same fields, right after the delete, and so is every other account.
C13_DeleteDoesNotCascade == [][C13_DeleteEffect]_vars

\* a repository with a grant and a star has just been deleted
C13_Witness ==
    /\ last.op = "delete_repo"
    /\ last.repository \notin DOMAIN repositories
    /\ CollaboratorsOf(last.repository) # {}
    /\ StarsOf(last.repository) # {}

-----------------------------------------------------------------------------
(* C14 *)

\* C14: in every reachable state, for every open Star account whose
\* repository is closed, unstar_repo by the account's user succeeds, and for
\* every open Collaborator account whose repository is closed,
\* remove_collaborator succeeds for some caller (the former owner among them).
C14_OrphansRemovable ==
    /\ \A a \in DOMAIN stars :
           stars[a].repository \notin DOMAIN repositories =>
               UnstarRepoResult(stars[a].user, stars[a].repository, a) = "Ok"
    /\ \A a \in DOMAIN collaborators :
           collaborators[a].repository \notin DOMAIN repositories =>
               \E caller \in Users :
                   RemoveCollaboratorResult(
                       caller, collaborators[a].repository, a) = "Ok"

-----------------------------------------------------------------------------
(* C15 *)

\* what a successful transfer_ownership writes and what it leaves
C15_TransferEffect ==
    Ran("transfer_ownership") =>
        LET r == last'.repository
        IN  /\ r \in DOMAIN repositories
            /\ DOMAIN repositories' = DOMAIN repositories
            /\ repositories'[r].owner = last'.args[1]
            /\ repositories'[r].name = repositories[r].name
            /\ repositories'[r].bump = repositories[r].bump
            /\ repositories'[r].description = repositories[r].description
            /\ repositories'[r].is_private = repositories[r].is_private
            /\ repositories'[r].created_at = repositories[r].created_at
            /\ repositories'[r].updated_at = repositories[r].updated_at
            /\ repositories'[r].head_commit = repositories[r].head_commit
            /\ repositories'[r].ipfs_cid = repositories[r].ipfs_cid
            /\ repositories'[r].stars = repositories[r].stars
            /\ \A o \in DOMAIN repositories \ {r} :
                   repositories'[o] = repositories[o]
            /\ UNCHANGED <<collaborators, stars>>

\* C15: a successful transfer_ownership(new_owner) sets the owner field of the
\* repository to new_owner and changes nothing else: the record stays at its
\* address with the same name, bump, description, privacy flag, created_at,
\* updated_at, head_commit, ipfs_cid and stars, and every other Repository,
\* every Collaborator and every Star account is the same before and after.
C15_TransferChangesOwnerOnly == [][C15_TransferEffect]_vars

\* a repository that has a star, a grant or a head commit has just been
\* transferred to another identity, at a later ledger time than its last
\* update
C15_Witness ==
    /\ last.op = "transfer_ownership"
    /\ last.repository \in DOMAIN repositories
    /\ repositories[last.repository].owner = last.args[1]
    /\ last.args[1] # last.caller
    /\ clock > repositories[last.repository].updated_at
    /\ \/ repositories[last.repository].stars = U64(1)
       \/ CollaboratorsOf(last.repository) # {}
       \/ repositories[last.repository].head_commit # ""

-----------------------------------------------------------------------------
(* C16 *)

\* the instructions that emit nothing
SilentOps == {"remove_collaborator", "unstar_repo", "delete_repo"}

\* the events of a successful transaction, against the accounts it wrote
C16_EmittedEvents ==
    /\ Ran("create_repo") =>
           /\ Len(last'.events) = 1
           /\ last'.events[1] =
                  [event |-> "RepoCreated",
                   owner |-> repositories'[last'.repository].owner,
                   name |-> repositories'[last'.repository].name,
                   is_private |-> repositories'[last'.repository].is_private,
                   timestamp |-> repositories'[last'.repository].created_at]
    /\ Ran("push_update") =>
           /\ Len(last'.events) = 1
           /\ last'.events[1] =
                  [event |-> "RepoPushed",
                   owner |-> repositories'[last'.repository].owner,
                   name |-> repositories'[last'.repository].name,
                   head_commit |-> repositories'[last'.repository].head_commit,
                   ipfs_cid |-> repositories'[last'.repository].ipfs_cid,
                   timestamp |-> repositories'[last'.repository].updated_at]
    /\ Ran("add_collaborator") =>
           /\ Len(last'.events) = 1
           /\ last'.events[1] =
                  [event |-> "CollaboratorAdded",
                   repository |-> collaborators'[last'.account].repository,
                   collaborator |-> collaborators'[last'.account].user,
                   can_push |-> collaborators'[last'.account].can_push,
                   timestamp |-> collaborators'[last'.account].added_at]
    /\ Ran("star_repo") =>
           /\ Len(last'.events) = 1
           /\ last'.events[1] =
                  [event |-> "RepoStarred",
                   user |-> stars'[last'.account].user,
                   repository |-> stars'[last'.account].repository,
                   timestamp |-> stars'[last'.account].starred_at]
    /\ Ran("transfer_ownership") =>
           /\ Len(last'.events) = 1
           /\ last'.events[1] =
                  [event |-> "OwnershipTransferred",
                   repository |-> last'.repository,
                   old_owner |-> repositories[last'.repository].owner,
                   new_owner |-> repositories'[last'.repository].owner]
    /\ (\E op \in SilentOps : Ran(op)) => last'.events = <<>>
    /\ clock' # clock => last' = last

\* C16: each successful create_repo, push_update, add_collaborator, star_repo
\* and transfer_ownership emits exactly one event, of its own kind
\* (RepoCreated, RepoPushed, CollaboratorAdded, RepoStarred,
\* OwnershipTransferred), whose fields are the values the transaction wrote
\* to the account (for a transfer: the repository, the owner before and the
\* owner after); remove_collaborator, unstar_repo and delete_repo emit
\* nothing; and a step that is no successful transaction emits nothing (a
\* failed call is rolled back with its events).
C16_Events == [][C16_EmittedEvents]_vars

\* the last transaction took a star back, at a later ledger time than the
\* repository's creation, and emitted nothing
C16_Witness ==
    /\ last.op = "unstar_repo"
    /\ last.events = <<>>
    /\ last.account \notin DOMAIN stars
    /\ clock > repositories[last.repository].created_at

-----------------------------------------------------------------------------
(* C17 *)

\* every open account has a payer, and the payer of a Star account is its
\* user
C17_PayersOfOpenAccounts ==
    /\ DOMAIN payers =
           DOMAIN repositories \cup DOMAIN collaborators \cup DOMAIN stars
    /\ \A a \in DOMAIN stars : payers[a] = stars[a].user

\* who pays when an account is created, who is refunded when it is closed
C17_RefundStep ==
    /\ Ran("create_repo") => payers'[last'.repository] = last'.caller
    /\ Ran("add_collaborator") => payers'[last'.account] = last'.caller
    /\ Ran("star_repo") => payers'[last'.account] = last'.caller
    /\ Ran("delete_repo") =>
           /\ last'.repository \notin DOMAIN repositories'
           /\ last'.refund = payers[last'.repository]
    /\ Ran("remove_collaborator") =>
           /\ last'.account \notin DOMAIN collaborators'
           /\ last'.refund = payers[last'.account]
    /\ Ran("unstar_repo") =>
           /\ last'.account \notin DOMAIN stars'
           /\ last'.refund = payers[last'.account]
    /\ (DOMAIN payers \ DOMAIN payers' # {}) =>
           /\ \E op \in SilentOps : Ran(op)
           /\ Cardinality(DOMAIN payers \ DOMAIN payers') = 1
    /\ \A a \in DOMAIN payers \cap DOMAIN payers' : payers'[a] = payers[a]

\* C17: the rent of a Repository or Collaborator account is paid by the owner
\* who signs its creation and the rent of a Star account by the starring
\* user; accounts are closed by delete_repo, remove_collaborator and
\* unstar_repo only, one per transaction; and whenever one is closed, the
\* identity that receives the refund is the identity that paid for that
\* account's creation.
C17_RefundToPayer == []C17_PayersOfOpenAccounts /\ [][C17_RefundStep]_vars

\* a Collaborator account has just been closed on a repository that holds a
\* star of another user, and its rent went to the signer
C17_Witness ==
    /\ last.op = "remove_collaborator"
    /\ last.account \notin DOMAIN payers
    /\ last.refund = last.caller
    /\ \E a \in StarsOf(last.repository) : payers[a] # last.refund

-----------------------------------------------------------------------------
(* C18 *)

\* the repository r after a step, but for its stars field
SameButStars(r) ==
    repositories'[r] =
        [repositories[r] EXCEPT !.stars = repositories'[r].stars]

\* what remove_collaborator and unstar_repo return for an account of another
\* repository or another user
C18_OtherRecordsRefused ==
    /\ \A a \in DOMAIN collaborators, caller \in Users, r \in RepoAddrs :
           collaborators[a].repository # r =>
               RemoveCollaboratorResult(caller, r, a) # "Ok"
    /\ \A a \in DOMAIN stars, u \in Users, r \in RepoAddrs :
           (stars[a].user # u \/ stars[a].repository # r) =>
               UnstarRepoResult(u, r, a) # "Ok"

\* what a successful remove_collaborator, unstar_repo or star_repo touches
C18_ConfinedStep ==
    /\ Ran("remove_collaborator") =>
           /\ last'.account \in DOMAIN collaborators
           /\ collaborators[last'.account].repository = last'.repository
           /\ repositories[last'.repository].owner = last'.caller
           /\ DOMAIN collaborators' = DOMAIN collaborators \ {last'.account}
           /\ \A a \in DOMAIN collaborators' :
                  collaborators'[a] = collaborators[a]
           /\ UNCHANGED <<repositories, stars>>
    /\ Ran("unstar_repo") =>
           /\ last'.account \in DOMAIN stars
           /\ stars[last'.account].user = last'.caller
           /\ stars[last'.account].repository = last'.repository
           /\ DOMAIN stars' = DOMAIN stars \ {last'.account}
           /\ \A a \in DOMAIN stars' : stars'[a] = stars[a]
           /\ UNCHANGED collaborators
    /\ Ran("star_repo") =>
           /\ DOMAIN stars' = DOMAIN stars \cup {last'.account}
           /\ \A a \in DOMAIN stars : stars'[a] = stars[a]
           /\ UNCHANGED collaborators
    /\ (Ran("unstar_repo") \/ Ran("star_repo")) =>
           /\ DOMAIN repositories' = DOMAIN repositories
           /\ SameButStars(last'.repository)
           /\ \A o \in DOMAIN repositories \ {last'.repository} :
                  repositories'[o] = repositories[o]

\* C18: remove_collaborator on repository r fails for every caller when the
\* Collaborator account it is given has another repository field, and a
\* successful one was signed by the owner of r and closed one Collaborator
\* account, whose repository field is r, and nothing else; unstar_repo by u on
\* r fails when the Star account it is given has another user or another
\* repository, and a successful one closed the one Star account of u and r
\* and changed only the stars field of r; star_repo and unstar_repo change no
\* field of a repository other than stars of the one they are given.
C18_ChildOpsConfined == []C18_OtherRecordsRefused /\ [][C18_ConfinedStep]_vars

\* two repositories are open, and the owner of one is refused, by the seeds
\* constraint, the removal of a grant on the other
C18_Witness ==
    \E a \in DOMAIN collaborators, r \in DOMAIN repositories :
        /\ collaborators[a].repository \in DOMAIN repositories \ {r}
        /\ RemoveCollaboratorResult(repositories[r].owner, r, a)
               = "ConstraintSeeds"

-----------------------------------------------------------------------------
(* C19 *)

\* the address of the Repository account of an owner and a name
RepoAddress(owner, name) ==
    find_program_address(RepoSeeds(owner, name), RepoSeedLens(name))

\* the repository at r is open and its owner field is not the owner its
\* address was derived from
Transferred(r) ==
    /\ r \in DOMAIN repositories
    /\ RepoAddress(repositories[r].owner, repositories[r].name) # r

\* what the instructions return on a transferred repository
C19_FrozenResults ==
    \A r \in RepoAddrs :
        Transferred(r) =>
            /\ \A caller \in Users :
                   /\ \A h \in Commits, c \in Cids :
                          PushUpdateResult(caller, r, h, c) # "Ok"
                   /\ \A g \in Users :
                          AddCollaboratorResult(caller, r, g) # "Ok"
                   /\ \A a \in CollabAddrs :
                          RemoveCollaboratorResult(caller, r, a) # "Ok"
                   /\ TransferOwnershipResult(caller, r) # "Ok"
                   /\ DeleteRepoResult(caller, r) # "Ok"
            /\ PushUpdateResult(repositories[r].owner, r, ValidCommit, ValidCid)
                   = "ConstraintSeeds"
            /\ \A u \in Users, d \in Descriptions :
                   RepoAddress(u, repositories[r].name) = r =>
                       /\ PushUpdateResult(u, r, ValidCommit, ValidCid)
                              = "ConstraintHasOne"
                       /\ CreateRepoResult(u, repositories[r].name, d) # "Ok"
            /\ \A u \in Users :
                   find_program_address(StarSeeds(u, r), StarSeedLens)
                       \notin DOMAIN stars => StarRepoResult(u, r) = "Ok"
            /\ \A a \in StarsOf(r) : UnstarRepoResult(stars[a].user, r, a) = "Ok"

\* a transfer to another identity leaves the repository transferred, and a
\* transferred repository stays so, open, with only its stars changing
C19_FrozenStep ==
    /\ (Ran("transfer_ownership") /\ last'.args[1] # last'.caller) =>
           (Transferred(last.repository))'
    /\ \A r \in RepoAddrs :
           Transferred(r) =>
               /\ Transferred(r)'
               /\ SameButStars(r)
               /\ repositories'[r] # repositories[r] =>
                      /\ Ran("star_repo") \/ Ran("unstar_repo")
                      /\ last'.repository = r

\* C19: once transfer_ownership has succeeded with a new_owner other than the
\* caller, in every later state push_update, add_collaborator,
\* remove_collaborator, transfer_ownership and delete_repo on the repository
\* fail for every caller (the owner the address was derived from fails
\* has_one, the new owner fails the seeds), create_repo by the first owner
\* with the same name fails, the record is never closed, and no field of it
\* changes but stars, which star_repo and unstar_repo still change.
C19_FrozenAfterTransfer == []C19_FrozenResults /\ [][C19_FrozenStep]_vars

\* a repository transferred to another identity has then been starred
C19_Witness ==
    /\ last.op = "star_repo"
    /\ Transferred(last.repository)
    /\ repositories[last.repository].stars = U64(1)
    /\ DeleteRepoResult(repositories[last.repository].owner, last.repository)
           = "ConstraintSeeds"

-----------------------------------------------------------------------------
(* C20 *)

\* a create_repo at an address that Collaborator and Star accounts refer to
\* (accounts left by a repository deleted at that address)
C20_RecreateStep ==
    \A r \in RepoAddrs :
        (Ran("create_repo") /\ last'.repository = r) =>
            /\ r = RepoAddress(last'.caller, last'.args[1])
            /\ r \notin DOMAIN repositories
            /\ r \in DOMAIN repositories'
            /\ repositories'[r].stars = U64_ZERO
            /\ \A a \in CollaboratorsOf(r) :
                   /\ a \in DOMAIN collaborators'
                   /\ collaborators'[a] = collaborators[a]
                   /\ (AddCollaboratorResult(last.caller, r,
                           collaborators[a].user))' = "AlreadyInUse"
            /\ \A a \in StarsOf(r) :
                   /\ a \in DOMAIN stars'
                   /\ stars'[a] = stars[a]
                   /\ (StarRepoResult(stars[a].user, r))' = "AlreadyInUse"
                   /\ (UnstarRepoResult(stars[a].user, r, a))' = "Ok"

\* C20: a create_repo by an owner with the name of a repository that owner
\* deleted puts the new repository at the same address with stars = 0; the
\* Collaborator and Star accounts left from the deleted repository are open,
\* unchanged, and belong to the new one: add_collaborator by the owner for a
\* grantee of such an account fails as already in use, star_repo by the user
\* of such an account fails as already in use, and that user's unstar_repo
\* succeeds.
C20_RecreateAttachesOrphans == [][C20_RecreateStep]_vars

\* a repository with a grant and a star was deleted and has just been created
\* again
C20_Witness ==
    /\ last.op = "create_repo"
    /\ last.repository \in DOMAIN repositories
    /\ repositories[last.repository].stars = U64_ZERO
    /\ CollaboratorsOf(last.repository) # {}
    /\ StarsOf(last.repository) # {}

====
